---- MODULE Spec2Model ----
(***************************************************************************)
(* Model of demo-app/assets/create_icons.py: a straight-line script that   *)
(* creates two solid-colour RGB canvases, saves them as icon.png and       *)
(* splash-icon.png in the working directory, and prints a confirmation.    *)
(*                                                                         *)
(* The state is the script's position, its two module-level variables,     *)
(* the working directory and the process's standard output.  Each          *)
(* statement is one step; a statement that calls into the image library    *)
(* (or the import itself) either completes or raises, and an exception is  *)
(* never caught, so it ends the run.  The script may be invoked again      *)
(* after a run has ended (Start), on the directory the last run left.      *)
(* print is taken to write to an open standard output and not to raise.    *)
(***************************************************************************)
EXTENDS Integers, Sequences, FiniteSets, TLC

\* Number of successive invocations of the script that are explored.
MaxRuns == 2

----------------------------------------------------------------------------
\* Literals of the script

Mode == "RGB"

IconSize == <<1024, 1024>>

\* Variant: width and height of the splash canvas exchanged.
SplashSizeSwapped == <<2778, 1284>>

SplashSize == <<1284, 2778>>

Color == <<28, 28, 30>>

IconPath == "icon.png"

\* Variant: the splash canvas saved under another asset's name.
SplashPathOther == "adaptive-icon.png"

SplashPath == "splash-icon.png"

Message == "Icons created!"

----------------------------------------------------------------------------
\* The working directory

\* The file names of the working directory that are tracked: the two the
\* script names and one it does not.
Files == {"icon.png", "splash-icon.png", "adaptive-icon.png"}

Absent == [kind |-> "absent"]

\* Content that is not an image (arbitrary bytes left by something else).
Junk == [kind |-> "bytes"]

\* What a file opened for writing holds when the write did not complete.
Truncated == [kind |-> "truncated"]

\* An older, different placeholder image already in the directory.
OldImage == [kind |-> "png", mode |-> "RGB", size |-> <<512, 512>>, fill |-> <<255, 255, 255>>]

\* Contents a file may have before the first run.
PriorContents == {Absent, Junk, OldImage}

\* The unbound module-level name before its assignment has run.
None == [kind |-> "none"]

VARIABLES
    pc,       \* the statement about to run, or "done" / "failed"
    img,      \* module variable img
    splash,   \* module variable splash
    fs,       \* working directory: file name -> content
    stdout,   \* lines this run has printed
    run,      \* number of the current invocation
    written,  \* history: paths saved to completion by this run
    failedAt, \* history: the statement that raised in this run, or "none"
    fsStart,  \* history: the directory when this run started
    count,    \* history: times each statement was executed in this run
    prev      \* history: outcome of the previous run

vars == <<pc, img, splash, fs, stdout, run, written, failedAt, fsStart, count, prev>>

----------------------------------------------------------------------------
\* The image library, as far as the script uses it

\* Image.new(mode, size, color): a canvas of that size, every pixel = color.
ImageNew(mode, size, color) ==
    [kind |-> "image", mode |-> mode, size |-> size, fill |-> color]

\* im.getpixel((x, y)) of a canvas made by Image.new
GetPixel(im, x, y) ==
    IF x \in 0..(im.size[1] - 1) /\ y \in 0..(im.size[2] - 1)
    THEN im.fill
    ELSE None

\* Variant: the encoder stamps the file with the invocation that wrote it.
EncodeStamped(im) ==
    [kind |-> "png", mode |-> im.mode, size |-> im.size, fill |-> im.fill, stamp |-> run]

\* The bytes im.save writes for a '.png' path: a PNG of the canvas, with
\* nothing in it but the canvas (no timestamp, no text chunk).
Encode(im) ==
    [kind |-> "png", mode |-> im.mode, size |-> im.size, fill |-> im.fill]

\* Image.open(path) on a file that Encode wrote
Decode(file) ==
    [kind |-> "image", mode |-> file.mode, size |-> file.size, fill |-> file.fill]

\* Variant: an existing file is kept (exclusive creation).
SaveIfMissing(dir, im, path) ==
    IF dir[path] = [kind |-> "absent"] THEN [dir EXCEPT ![path] = Encode(im)] ELSE dir

\* im.save(path): the directory after a completed save; the file is opened
\* for writing (created or truncated) and replaced by the encoding.
Save(dir, im, path) ==
    [dir EXCEPT ![path] = Encode(im)]

\* im.save(path) raising: either the open failed and the file is as it was,
\* or the open succeeded and the write did not complete.
SaveFailures(dir, path) ==
    {dir, [dir EXCEPT ![path] = Truncated]}

----------------------------------------------------------------------------
\* The script

Statements == {"import", "new_icon", "save_icon", "new_splash", "save_splash", "print"}

Terminal == {"done", "failed"}

\* Variant: the confirmation printed before the splash is saved.
SuccPrintEarly(p) ==
    CASE p = "import"      -> "new_icon"
      [] p = "new_icon"    -> "save_icon"
      [] p = "save_icon"   -> "new_splash"
      [] p = "new_splash"  -> "print"
      [] p = "print"       -> "save_splash"
      [] p = "save_splash" -> "done"

\* Variant: the splash created and saved before the icon.
SuccSplashFirst(p) ==
    CASE p = "import"      -> "new_splash"
      [] p = "new_splash"  -> "save_splash"
      [] p = "save_splash" -> "new_icon"
      [] p = "new_icon"    -> "save_icon"
      [] p = "save_icon"   -> "print"
      [] p = "print"       -> "done"

\* The statement that follows p in the script's text.
Succ(p) ==
    CASE p = "import"      -> "new_icon"
      [] p = "new_icon"    -> "save_icon"
      [] p = "save_icon"   -> "new_splash"
      [] p = "new_splash"  -> "save_splash"
      [] p = "save_splash" -> "print"
      [] p = "print"       -> "done"

\* Variant: the last save wrapped in a handler that ignores the exception.
RaiseSwallowed(p) == IF p = "save_splash" THEN "print" ELSE "failed"

\* Variant: a statement that raises is attempted again.
RaiseRetry(p) == p

\* An exception raised by statement p: nothing catches it, the run ends.
Raise(p) == "failed"

NoCount == [s \in Statements |-> 0]

NoPrev == [ran |-> FALSE, ok |-> FALSE, fs |-> [f \in Files |-> Absent], stdout |-> <<>>]

Init ==
    /\ pc = "import"
    /\ img = None
    /\ splash = None
    /\ fs \in [Files -> PriorContents]
    /\ stdout = <<>>
    /\ run = 1
    /\ written = {}
    /\ failedAt = "none"
    /\ fsStart = fs
    /\ count = NoCount
    /\ prev = NoPrev

\* Bookkeeping common to every statement that completes.
Advance(p) ==
    /\ pc' = Succ(p)
    /\ count' = [count EXCEPT ![p] = @ + 1]
    /\ UNCHANGED <<run, failedAt, fsStart, prev>>

\* Bookkeeping common to every statement that raises.
Abort(p) ==
    /\ pc' = Raise(p)
    /\ count' = [count EXCEPT ![p] = @ + 1]
    /\ failedAt' = p
    /\ UNCHANGED <<run, fsStart, prev>>

\* line 1: from PIL import Image
Import ==
    /\ pc = "import"
    /\ \/ Advance("import")
       \/ Abort("import")
    /\ UNCHANGED <<img, splash, fs, stdout, written>>

\* line 4: img = Image.new('RGB', (1024, 1024), color=(28, 28, 30))
NewIcon ==
    /\ pc = "new_icon"
    /\ \/ /\ img' = ImageNew(Mode, IconSize, Color)
          /\ Advance("new_icon")
       \/ /\ img' = img
          /\ Abort("new_icon")
    /\ UNCHANGED <<splash, fs, stdout, written>>

\* line 5: img.save('icon.png')
SaveIcon ==
    /\ pc = "save_icon"
    /\ \/ /\ fs' = Save(fs, img, IconPath)
          /\ written' = written \cup {IconPath}
          /\ Advance("save_icon")
       \/ /\ fs' \in SaveFailures(fs, IconPath)
          /\ written' = written
          /\ Abort("save_icon")
    /\ UNCHANGED <<img, splash, stdout>>

\* line 8: splash = Image.new('RGB', (1284, 2778), color=(28, 28, 30))
NewSplash ==
    /\ pc = "new_splash"
    /\ \/ /\ splash' = ImageNew(Mode, SplashSize, Color)
          /\ Advance("new_splash")
       \/ /\ splash' = splash
          /\ Abort("new_splash")
    /\ UNCHANGED <<img, fs, stdout, written>>

\* line 9: splash.save('splash-icon.png')
SaveSplash ==
    /\ pc = "save_splash"
    /\ \/ /\ fs' = Save(fs, splash, SplashPath)
          /\ written' = written \cup {SplashPath}
          /\ Advance("save_splash")
       \/ /\ fs' \in SaveFailures(fs, SplashPath)
          /\ written' = written
          /\ Abort("save_splash")
    /\ UNCHANGED <<img, splash, stdout>>

\* line 11: print("Icons created!")
SayCreated ==
    /\ pc = "print"
    /\ stdout' = Append(stdout, Message)
    /\ Advance("print")
    /\ UNCHANGED <<img, splash, fs, written>>

\* One statement of the running script.
Step ==
    \/ Import
    \/ NewIcon
    \/ SaveIcon
    \/ NewSplash
    \/ SaveSplash
    \/ SayCreated

\* The script is invoked again: a new process, on the directory as it is.
Start ==
    /\ pc \in Terminal
    /\ run < MaxRuns
    /\ prev' = [ran |-> TRUE, ok |-> (pc = "done"), fs |-> fs, stdout |-> stdout]
    /\ pc' = "import"
    /\ img' = None
    /\ splash' = None
    /\ stdout' = <<>>
    /\ run' = run + 1
    /\ written' = {}
    /\ failedAt' = "none"
    /\ fsStart' = fs
    /\ count' = NoCount
    /\ UNCHANGED fs

Next ==
    \/ Import
    \/ NewIcon
    \/ SaveIcon
    \/ NewSplash
    \/ SaveSplash
    \/ SayCreated
    \/ Start

Spec == Init /\ [][Next]_vars

\* The interpreter runs the statements one after another without waiting
\* on anything, so a run that has a statement to execute executes it.
FairSpec == Spec /\ WF_vars(Step)

TypeOK ==
    /\ pc \in Statements \cup Terminal
    /\ run \in 1..MaxRuns
    /\ written \subseteq Files
    /\ failedAt \in Statements \cup {"none"}
    /\ DOMAIN fs = Files

----------------------------------------------------------------------------
\* Properties

Both == {"icon.png", "splash-icon.png"}

\* The content a completed run leaves in each of its two files.
FreshIcon == [kind |-> "png", mode |-> "RGB", size |-> <<1024, 1024>>, fill |-> <<28, 28, 30>>]

FreshSplash == [kind |-> "png", mode |-> "RGB", size |-> <<1284, 2778>>, fill |-> <<28, 28, 30>>]

\* C1: whenever the run has printed anything, it has printed exactly the
\* line 'Icons created!', both icon.png and splash-icon.png have been saved
\* to completion in this same run, and no statement of the run has raised.
C1_MessageOnlyAfterBothWritten ==
    stdout # <<>> =>
        /\ stdout = <<"Icons created!">>
        /\ Both \subseteq written
        /\ failedAt = "none"
        /\ fs["icon.png"].kind = "png"
        /\ fs["splash-icon.png"].kind = "png"

C1_Witness ==
    /\ pc = "done"
    /\ stdout = <<"Icons created!">>
    /\ written = Both

\* C2: once any statement of the run has raised (the import, either
\* Image.new, either save), the run is in its failed state and its standard
\* output is empty.
C2_FailedRunPrintsNothing ==
    failedAt # "none" => (pc = "failed" /\ stdout = <<>>)

C2_Witness ==
    /\ pc = "failed"
    /\ failedAt = "save_splash"
    /\ written = {"icon.png"}
    /\ stdout = <<>>

\* Coordinates at which the pixels of a w-by-h image are read: the first,
\* middle and last rows in full, and the first, middle and last columns in
\* full.
Probes(w, h) ==
    ({0, w \div 2, w - 1} \X (0..(h - 1))) \cup ((0..(w - 1)) \X {0, h \div 2, h - 1})

\* C3: after a successful run icon.png decodes to a 1024 x 1024 image and
\* splash-icon.png to a 1284 x 2778 image, every pixel read from either is
\* (28, 28, 30), and the two have the same fill colour.
C3_SizesAndColour ==
    pc = "done" =>
        /\ fs["icon.png"].kind = "png"
        /\ fs["splash-icon.png"].kind = "png"
        /\ LET i == Decode(fs["icon.png"])
               s == Decode(fs["splash-icon.png"])
           IN  /\ i.size = <<1024, 1024>>
               /\ s.size = <<1284, 2778>>
               /\ i.mode = "RGB" /\ s.mode = "RGB"
               /\ \A xy \in Probes(1024, 1024) : GetPixel(i, xy[1], xy[2]) = <<28, 28, 30>>
               /\ \A xy \in Probes(1284, 2778) : GetPixel(s, xy[1], xy[2]) = <<28, 28, 30>>
               /\ i.fill = s.fill

C3_Witness ==
    /\ pc = "done"
    /\ fsStart["icon.png"] = Absent
    /\ fsStart["splash-icon.png"] = Absent
    /\ fs["icon.png"].kind = "png"
    /\ fs["splash-icon.png"].kind = "png"

\* C4: when a successful run follows a successful run, the second leaves
\* icon.png and splash-icon.png with exactly the content the first left,
\* and prints exactly what the first printed.
C4_Idempotent ==
    (pc = "done" /\ prev.ran /\ prev.ok) =>
        /\ fs["icon.png"] = prev.fs["icon.png"]
        /\ fs["splash-icon.png"] = prev.fs["splash-icon.png"]
        /\ stdout = prev.stdout

C4_Witness ==
    /\ pc = "done"
    /\ run = 2
    /\ prev.ok
    /\ Both \subseteq written

\* C5: after a successful run the two files hold the freshly generated
\* canvases whatever they held when the run started.
C5_Overwrites ==
    pc = "done" =>
        /\ fs["icon.png"] = FreshIcon
        /\ fs["splash-icon.png"] = FreshSplash

C5_Witness ==
    /\ pc = "done"
    /\ fsStart["icon.png"] = Junk
    /\ fsStart["splash-icon.png"] = OldImage
    /\ fs["icon.png"] = FreshIcon
    /\ fs["splash-icon.png"] = FreshSplash

\* C6: in every state of a run every file other than icon.png and
\* splash-icon.png is as it was when the run started, at most one line has
\* been printed, and a successful run started in an empty directory ends
\* with exactly icon.png and splash-icon.png present.
C6_Frame ==
    /\ \A f \in Files \ Both : fs[f] = fsStart[f]
    /\ Len(stdout) <= 1
    /\ (pc = "done" /\ \A f \in Files : fsStart[f] = Absent)
           => {f \in Files : fs[f] # Absent} = Both

C6_Witness ==
    /\ pc = "done"
    /\ \A f \in Files : fsStart[f] = Absent
    /\ {f \in Files : fs[f] # Absent} = Both

\* The two terminal states and what is true in each; no statement executed
\* more than once; a statement is ready to run exactly in the other states.
C7_Shape ==
    /\ \A s \in Statements : count[s] <= 1
    /\ pc = "done" => (written = Both /\ stdout = <<"Icons created!">> /\ failedAt = "none")
    /\ pc = "failed" => (stdout = <<>> /\ failedAt # "none")
    /\ (pc \in {"done", "failed"}) <=> ~ ENABLED Step

\* C7: every run ends in success (both files written, the message printed
\* once) or in failure (a statement raised, nothing printed); no statement
\* runs more than once, only those two states are terminal, and every run
\* reaches one of them.
C7_Terminates ==
    /\ []C7_Shape
    /\ [](pc \notin {"done", "failed"} => <>(pc \in {"done", "failed"}))

C7_Witness ==
    /\ pc = "failed"
    /\ failedAt = "new_splash"
    /\ count["new_splash"] = 1
    /\ count["save_splash"] = 0

\* C8: splash-icon.png is saved, or changed at all, only in a run that has
\* already saved icon.png; a run that failed at or before the save of the
\* icon leaves splash-icon.png as it was; and a failed run has saved either
\* nothing or icon.png alone.
C8_IconBeforeSplash ==
    /\ "splash-icon.png" \in written => "icon.png" \in written
    /\ fs["splash-icon.png"] # fsStart["splash-icon.png"] => "icon.png" \in written
    /\ failedAt \in {"import", "new_icon", "save_icon"}
           => fs["splash-icon.png"] = fsStart["splash-icon.png"]
    /\ pc = "failed" => written \in {{}, {"icon.png"}}

C8_Witness ==
    /\ pc = "failed"
    /\ failedAt = "save_icon"
    /\ fs["icon.png"] = Truncated
    /\ fsStart["splash-icon.png"] = OldImage
    /\ fs["splash-icon.png"] = OldImage

====
